---- MODULE Spec2Model ----
(***************************************************************************)
(* Model of utils/deployment.py: the command runner, the repository        *)
(* synchronizer, the permission setter, the environment file writer, the   *)
(* deployment reporter and the entry flow.                                 *)
(*                                                                         *)
(* Text is modelled as a sequence of one-character strings wherever the    *)
(* code inspects or transforms it (strip, endswith, f-string formatting of *)
(* the .env lines); opaque identifiers (URLs, branch names, directories)   *)
(* are TLA+ strings.                                                       *)
(***************************************************************************)
EXTENDS Integers, Sequences, FiniteSets, TLC

\* ------------------------------------------------------------------------
\* Bounds of the model
\* ------------------------------------------------------------------------
MaxCalls == 2

\* Python's None
None == "<None>"

\* ------------------------------------------------------------------------
\* Input domains
\* ------------------------------------------------------------------------
RepoUrls == {"https://h/a.git", "https://h/b.git"}
Branches == {"main", "dev"}
CommitHashes == {None, "", "abc123"}
LocalDirs == {"./test", "/srv/app"}

\* what a finished git process can leave on stdout / stderr
Texts == {<< >>, <<" ">>, <<"x", " ">>}
ReturnCodes == {0, 1}

VARIABLES
    exists,        \* set of paths for which os.path.exists is true
    envfile,       \* content of <dir>/.env for every directory that holds one
    stdout,        \* what has been printed
    trace,         \* external effects in order: HTTP posts and files opened for writing
    \* clone_or_update_repo
    s_pc,          \* position inside clone_or_update_repo
    s_args,        \* arguments of the running call
    s_existed,     \* value of os.path.exists(local_dir) when the call started
    logs,          \* the caller's log list
    response,      \* local variable `response`
    cmds,          \* argument vectors handed to subprocess.run in this call
    results,       \* what execute_command returned for each of them
    returned,      \* return value of the call (None while running)
    s_calls,       \* number of calls made so far
    \* set_permission_readonly / set_permission_full
    p_fs,          \* directory tree: path -> [kind, mode]
    p_fs0,         \* the tree as it was when the running call started
    p_pc,          \* position inside the walk
    p_args,        \* [fn, local_dir, exclude_ext] of the running call
    p_stack,       \* directories os.walk has still to yield
    p_root,        \* `root` of the current os.walk triple
    p_files,       \* files of the current triple not yet visited
    p_logs,        \* the caller's log list
    p_calls,       \* number of calls made so far
    \* create_env_file
    e_pc,          \* position inside create_env_file
    e_args,        \* [local_dir, env_config] of the running call
    e_i,           \* index of the next item of env_config.items()
    e_before,      \* envfile when the running call started
    e_calls,       \* number of calls made so far
    \* deploy_repo
    d_pc,          \* position inside deploy_repo
    d_args,        \* arguments of the running call
    d_resp,        \* local variable `response`
    d_data,        \* local variable `response_data`
    d_exc,         \* the exception in flight, if any
    posts,         \* requests.post calls made by the running call
    d_calls,       \* number of calls made so far
    json_error_is_request_exception,
                   \* whether the installed requests library raises, from
                   \* Response.json(), a subclass of RequestException
                   \* (requests >= 2.27) or a plain ValueError (older)
    \* entry flow
    m_pc,          \* position inside the __main__ block
    environ,       \* os.environ restricted to USERNAME and USER
    cfg_content,   \* what yaml.safe_load gives for deployment.yaml
    username,      \* module-level `username`
    config,        \* module-level `config`
    local_dir,     \* module-level `local_dir`
    m_exc          \* the exception that ended the run, if any

fsVars == <<exists, envfile>>
ioVars == <<stdout, trace>>
syncVars == <<s_pc, s_args, s_existed, logs, response, cmds, results, returned, s_calls>>
permVars == <<p_fs, p_fs0, p_pc, p_args, p_stack, p_root, p_files, p_logs, p_calls>>
envVars == <<e_pc, e_args, e_i, e_before, e_calls>>
deployVars == <<d_pc, d_args, d_resp, d_data, d_exc, posts, d_calls, json_error_is_request_exception>>
mainVars == <<m_pc, environ, cfg_content, username, config, local_dir, m_exc>>

vars == <<fsVars, ioVars, syncVars, permVars, envVars, deployVars, mainVars>>

\* ------------------------------------------------------------------------
\* Python helpers
\* ------------------------------------------------------------------------

\* variant: only None counts as absent (`is not None` in place of truthiness)
Truthy_IsNotNone(v) == v # None

\* truth value of an optional string: None and "" are falsy
Truthy(v) == v # None /\ v # ""

RECURSIVE LStrip(_)
LStrip(s) == IF s # << >> /\ Head(s) = " " THEN LStrip(Tail(s)) ELSE s

RECURSIVE RStrip(_)
RStrip(s) == IF s # << >> /\ s[Len(s)] = " " THEN RStrip(SubSeq(s, 1, Len(s) - 1)) ELSE s

\* str.strip()
Strip(s) == RStrip(LStrip(s))

\* str(CalledProcessError): "Command '<cmd>' returned non-zero exit status <n>."
StrCalledProcessError(command, rc) ==
    <<"Command">> \o command \o <<"returned non-zero exit status", ToString(rc)>>

\* a finished or unstartable external process
ProcOutcomes ==
    [kind : {"exit"}, returncode : ReturnCodes, stdout : Texts, stderr : Texts]
        \cup {[kind |-> "oserror"]}

\* execute_command: the dict it returns for a process that ran to completion
execute_command(command, proc) ==
    IF proc.returncode = 0
    THEN [success |-> TRUE, output |-> Strip(proc.stdout)]
    ELSE [success |-> FALSE,
          error |-> IF proc.stderr # << >> THEN Strip(proc.stderr)
                    ELSE StrCalledProcessError(command, proc.returncode)]

\* variant: URL and branch in each other's place
CloneCmd_Swapped(a) == <<"git", "clone", "-b", a.repo_url, a.branch, a.local_dir>>

\* the four argument vectors the synchronizer builds
CloneCmd(a) == <<"git", "clone", "-b", a.branch, a.repo_url, a.local_dir>>
FetchCmd(a) == <<"git", "-C", a.local_dir, "fetch">>
CheckoutCmd(a, ref) == <<"git", "-C", a.local_dir, "checkout", ref>>
PullCmd(a) == <<"git", "-C", a.local_dir, "pull", "origin", a.branch>>

\* ------------------------------------------------------------------------
\* clone_or_update_repo
\* ------------------------------------------------------------------------
OtherThanSync == <<ioVars, permVars, envVars, deployVars, mainVars>>

SyncArgs == [repo_url : RepoUrls, branch : Branches,
             commit_hash : CommitHashes, local_dir : LocalDirs]

NoArgs == [repo_url |-> None, branch |-> None, commit_hash |-> None, local_dir |-> None]

SyncIdle ==
    /\ s_pc = "idle"
    /\ s_args = NoArgs
    /\ logs = << >>
    /\ response = None
    /\ cmds = << >>
    /\ results = << >>
    /\ returned = None
    /\ s_existed = FALSE
    /\ s_calls = 0

\* a caller invokes clone_or_update_repo with a fresh log list
SyncCall ==
    /\ s_pc \in {"idle", "returned", "raised"}
    /\ s_calls < MaxCalls
    /\ \E a \in SyncArgs :
         /\ s_args' = a
         /\ s_existed' = (a.local_dir \in exists)
    /\ s_pc' = "start"
    /\ logs' = << >>
    /\ response' = None
    /\ cmds' = << >>
    /\ results' = << >>
    /\ returned' = None
    /\ s_calls' = s_calls + 1
    /\ UNCHANGED <<exists, envfile, OtherThanSync>>

\* one call of execute_command(command) from the synchronizer: the process
\* either cannot be started (the error leaves clone_or_update_repo) or
\* finishes, and its result is bound to `response`
RunCommand(command, proc, nextpc) ==
    /\ cmds' = Append(cmds, command)
    /\ IF proc.kind = "oserror"
       THEN /\ s_pc' = "raised"
            /\ UNCHANGED <<response, results>>
       ELSE /\ response' = execute_command(command, proc)
            /\ results' = Append(results, execute_command(command, proc))
            /\ s_pc' = nextpc

\* lines 111-113
SyncClone ==
    /\ s_pc = "start"
    /\ s_args.local_dir \notin exists
    /\ logs' = Append(logs, <<"Cloning repository", s_args.repo_url, "into", s_args.local_dir>>)
    /\ \E proc \in ProcOutcomes :
         /\ RunCommand(CloneCmd(s_args), proc, "first_done")
         /\ exists' = IF proc.kind = "exit" /\ proc.returncode = 0
                      THEN exists \cup {s_args.local_dir} ELSE exists
    /\ UNCHANGED <<s_args, s_existed, returned, s_calls, envfile, OtherThanSync>>

\* lines 114-116
SyncFetch ==
    /\ s_pc = "start"
    /\ s_args.local_dir \in exists
    /\ logs' = Append(logs, <<"Repository already exists. Fetching latest changes.">>)
    /\ \E proc \in ProcOutcomes : RunCommand(FetchCmd(s_args), proc, "first_done")
    /\ UNCHANGED <<exists, envfile, s_existed, s_args, returned, s_calls, OtherThanSync>>

\* lines 118-119
SyncReturnFirstFailure ==
    /\ s_pc = "first_done"
    /\ ~response.success
    /\ returned' = response
    /\ s_pc' = "returned"
    /\ UNCHANGED <<exists, envfile, s_existed, s_args, logs, response, cmds, results, s_calls, OtherThanSync>>

\* variant: the commit checkout falls into the pull of the branch
SyncCheckoutCommit_ThenPull ==
    /\ s_pc = "first_done"
    /\ response.success
    /\ Truthy(s_args.commit_hash)
    /\ logs' = Append(logs, <<"Checking out specific commit", s_args.commit_hash>>)
    /\ \E proc \in ProcOutcomes :
         RunCommand(CheckoutCmd(s_args, s_args.commit_hash), proc, "branch_done")
    /\ UNCHANGED <<exists, envfile, s_existed, s_args, returned, s_calls, OtherThanSync>>

\* lines 121-123
SyncCheckoutCommit ==
    /\ s_pc = "first_done"
    /\ response.success
    /\ Truthy(s_args.commit_hash)
    /\ logs' = Append(logs, <<"Checking out specific commit", s_args.commit_hash>>)
    /\ \E proc \in ProcOutcomes :
         RunCommand(CheckoutCmd(s_args, s_args.commit_hash), proc, "return")
    /\ UNCHANGED <<exists, envfile, s_existed, s_args, returned, s_calls, OtherThanSync>>

\* lines 124-126
SyncCheckoutBranch ==
    /\ s_pc = "first_done"
    /\ response.success
    /\ ~Truthy(s_args.commit_hash)
    /\ logs' = Append(logs, <<"Pulling latest commit from branch", s_args.branch>>)
    /\ \E proc \in ProcOutcomes :
         RunCommand(CheckoutCmd(s_args, s_args.branch), proc, "branch_done")
    /\ UNCHANGED <<exists, envfile, s_existed, s_args, returned, s_calls, OtherThanSync>>

\* variant: the pull does not look at the checkout's result
SyncPull_Unconditional ==
    /\ s_pc = "branch_done"
    /\ \E proc \in ProcOutcomes : RunCommand(PullCmd(s_args), proc, "return")
    /\ UNCHANGED <<exists, envfile, s_existed, s_args, logs, returned, s_calls, OtherThanSync>>

\* lines 127-128, the checkout succeeded
SyncPull ==
    /\ s_pc = "branch_done"
    /\ response.success
    /\ \E proc \in ProcOutcomes : RunCommand(PullCmd(s_args), proc, "return")
    /\ UNCHANGED <<exists, envfile, s_existed, s_args, logs, returned, s_calls, OtherThanSync>>

\* line 127, the checkout failed: fall through to the return
SyncSkipPull ==
    /\ s_pc = "branch_done"
    /\ ~response.success
    /\ s_pc' = "return"
    /\ UNCHANGED <<exists, envfile, s_existed, s_args, logs, response, cmds, results, returned, s_calls, OtherThanSync>>

\* line 130
SyncReturn ==
    /\ s_pc = "return"
    /\ returned' = response
    /\ s_pc' = "returned"
    /\ UNCHANGED <<exists, envfile, s_existed, s_args, logs, response, cmds, results, s_calls, OtherThanSync>>

NextSync ==
    \/ SyncCall
    \/ SyncClone
    \/ SyncFetch
    \/ SyncReturnFirstFailure
    \/ SyncCheckoutCommit
    \/ SyncCheckoutBranch
    \/ SyncPull
    \/ SyncSkipPull
    \/ SyncReturn

\* ------------------------------------------------------------------------
\* set_permission_readonly / set_permission_full
\* ------------------------------------------------------------------------
OtherThanPerm == <<fsVars, ioVars, syncVars, envVars, deployVars, mainVars>>

\* permission bits
ReadOnly == 292       \* 0o444
FullPermission == 511 \* 0o777

\* names, as sequences of characters
RootName == <<"r">>
SubName == <<"d", ".", "n">>
OutsideName == <<"o">>
MissingName == <<"m">>
FileNames == {<<"a", ".", "t">>, <<"b", ".", "n">>, <<".", "n">>, <<"n">>}
SubFileNames == {<<"a", ".", "t">>, <<"b", ".", "n">>}
OutsideFile == <<OutsideName, <<"a", ".", "t">> >>
Extensions == {<<".", "n">>, <<".", "t">>, << >>}
\* modes files start with: 0o644 and 0o444
FileModes == {420, 292}

\* largest number of files directly in the root directory
MaxRootFiles == 2

\* variant: str.startswith
EndsWith_StartsWith(s, suffix) ==
    /\ Len(suffix) <= Len(s)
    /\ SubSeq(s, 1, Len(suffix)) = suffix

\* str.endswith
EndsWith(s, suffix) ==
    /\ Len(suffix) <= Len(s)
    /\ SubSeq(s, Len(s) - Len(suffix) + 1, Len(s)) = suffix

\* os.path.join(root, file)
PathJoin(root, file) == Append(root, file)

\* names of the entries of one kind directly inside directory dir
Children(fs, dir, kind) ==
    {p[Len(p)] : p \in {q \in DOMAIN fs : /\ Len(q) = Len(dir) + 1
                                          /\ SubSeq(q, 1, Len(dir)) = dir
                                          /\ fs[q].kind = kind}}

\* the orders in which a directory listing can come back
Orderings(S) ==
    {f \in [1..Cardinality(S) -> S] : \A i, j \in 1..Cardinality(S) : f[i] = f[j] => i = j}

\* the directory trees: r/ with some files and the subdirectory r/d.n/, and
\* o/ beside it with one file; directories have mode 0o755
Trees ==
    LET dirs == {<<RootName>>, <<RootName, SubName>>, <<OutsideName>>}
    IN  UNION {
          LET files == {<<RootName, n>> : n \in rf}
                         \cup {<<RootName, SubName, n>> : n \in sf}
          IN  {[p \in dirs \cup files \cup {OutsideFile} |->
                  IF p \in dirs THEN [kind |-> "dir", mode |-> 493]
                  ELSE IF p = OutsideFile THEN [kind |-> "file", mode |-> 420]
                  ELSE [kind |-> "file", mode |-> m[p]]] : m \in [files -> FileModes]}
          : rf \in {x \in SUBSET FileNames : Cardinality(x) <= MaxRootFiles},
            sf \in {x \in SUBSET SubFileNames : Cardinality(x) <= 1}}

PermArgs == [fn : {"set_permission_readonly", "set_permission_full"},
             local_dir : {<<RootName>>, <<RootName, SubName>>, <<MissingName>>},
             exclude_ext : Extensions]

PermIdle ==
    /\ p_fs0 = << >>
    /\ p_pc = "idle"
    /\ p_args = None
    /\ p_stack = << >>
    /\ p_root = << >>
    /\ p_files = << >>
    /\ p_logs = << >>
    /\ p_calls = 0

\* a caller invokes one of the two permission setters with a fresh log list;
\* os.walk starts at local_dir and yields nothing when it cannot be listed
PermCall ==
    /\ p_pc \in {"idle", "done", "raised"}
    /\ p_calls < MaxCalls
    /\ \E a \in PermArgs :
         /\ p_args' = a
         /\ p_stack' = IF a.local_dir \in DOMAIN p_fs /\ p_fs[a.local_dir].kind = "dir"
                       THEN <<a.local_dir>> ELSE << >>
    /\ p_fs0' = p_fs
    /\ p_pc' = "walk"
    /\ p_root' = << >>
    /\ p_files' = << >>
    /\ p_logs' = << >>
    /\ p_calls' = p_calls + 1
    /\ UNCHANGED <<p_fs, OtherThanPerm>>

\* lines 141 and 156: os.walk yields the next (root, dirs, files), top-down
PermNextDir ==
    /\ p_pc = "walk"
    /\ p_files = << >>
    /\ p_stack # << >>
    /\ p_root' = Head(p_stack)
    /\ \E fo \in Orderings(Children(p_fs, Head(p_stack), "file")) : p_files' = fo
    /\ \E do \in Orderings(Children(p_fs, Head(p_stack), "dir")) :
         p_stack' = [i \in 1..Len(do) |-> PathJoin(Head(p_stack), do[i])] \o Tail(p_stack)
    /\ UNCHANGED <<p_fs, p_fs0, p_pc, p_args, p_logs, p_calls, OtherThanPerm>>

\* os.chmod(path, mode) and its log entry; the chmod can fail with OSError,
\* which leaves the function
Chmod(path, mode, what, ok) ==
    IF ok
    THEN /\ p_fs' = [p_fs EXCEPT ![path].mode = mode]
         /\ p_logs' = Append(p_logs, <<"Set", path, what>>)
         /\ p_pc' = "walk"
    ELSE /\ p_pc' = "raised"
         /\ UNCHANGED <<p_fs, p_logs>>

\* lines 142-146: one iteration of the inner loop of set_permission_readonly
PermReadonlyFile ==
    /\ p_pc = "walk"
    /\ p_args.fn = "set_permission_readonly"
    /\ p_files # << >>
    /\ p_files' = Tail(p_files)
    /\ IF ~EndsWith(Head(p_files), p_args.exclude_ext)
       THEN \E ok \in BOOLEAN :
              Chmod(PathJoin(p_root, Head(p_files)), ReadOnly, "to read-only.", ok)
       ELSE UNCHANGED <<p_fs, p_logs, p_pc>>
    /\ UNCHANGED <<p_fs0, p_args, p_stack, p_root, p_calls, OtherThanPerm>>

\* lines 157-160: one iteration of the inner loop of set_permission_full
PermFullFile ==
    /\ p_pc = "walk"
    /\ p_args.fn = "set_permission_full"
    /\ p_files # << >>
    /\ p_files' = Tail(p_files)
    /\ \E ok \in BOOLEAN :
         Chmod(PathJoin(p_root, Head(p_files)), FullPermission, "to full permission.", ok)
    /\ UNCHANGED <<p_fs0, p_args, p_stack, p_root, p_calls, OtherThanPerm>>

\* the walk is exhausted and the function returns
PermDone ==
    /\ p_pc = "walk"
    /\ p_files = << >>
    /\ p_stack = << >>
    /\ p_pc' = "done"
    /\ UNCHANGED <<p_fs, p_fs0, p_args, p_stack, p_root, p_files, p_logs, p_calls, OtherThanPerm>>

\* ------------------------------------------------------------------------
\* create_env_file
\* ------------------------------------------------------------------------
\* largest number of entries of an env mapping
MaxEnvLen == 2

EnvKeys == {<<"K">>, <<"A", "B">>, <<"P">>}
EnvValues == {<<"v">>, <<"'", "v">>}

\* dicts of at most MaxEnvLen entries, as the sequence of (key, value) pairs
\* that dict.items() yields: keys are distinct, order is insertion order
EnvConfigs ==
    UNION {{m \in [1..n -> EnvKeys \X EnvValues] :
              \A i, j \in 1..n : m[i][1] = m[j][1] => i = j} : n \in 0..MaxEnvLen}

\* os.path.join(local_dir, ".env")
EnvPath(dir) == <<dir, ".env">>

\* f"{key} = '{value}'\n"
EnvLine(item) == item[1] \o <<" ", "=", " ", "'">> \o item[2] \o <<"'", "\n">>

\* variant: open(path, "a"), which keeps what the file holds
OpenForWriting_Append(files, dir) ==
    [d \in DOMAIN files \cup {dir} |-> IF d \in DOMAIN files THEN files[d] ELSE << >>]

\* the file system after open(path, "w") on <dir>/.env succeeded
OpenForWriting(files, dir) ==
    [d \in DOMAIN files \cup {dir} |-> IF d = dir THEN << >> ELSE files[d]]

EnvIdle ==
    /\ e_pc = "idle"
    /\ e_args = None
    /\ e_i = 0
    /\ e_before = << >>
    /\ e_calls = 0

\* what a call of create_env_file(dir, cfg) starts from
EnvEnter(dir, cfg) ==
    /\ e_args' = [local_dir |-> dir, env_config |-> cfg]
    /\ e_pc' = "start"
    /\ e_i' = 0
    /\ e_before' = envfile
    /\ e_calls' = e_calls + 1

\* a caller invokes create_env_file directly
EnvCall ==
    /\ e_pc \in {"idle", "returned", "raised"}
    /\ e_calls < MaxCalls
    /\ \E dir \in LocalDirs, cfg \in EnvConfigs : EnvEnter(dir, cfg)
    /\ stdout' = << >>
    /\ trace' = << >>
    /\ UNCHANGED <<fsVars, syncVars, permVars, deployVars, mainVars>>

\* lines 170-172: print, then open the file for writing, which truncates it
\* or fails when the directory is missing
EnvOpen ==
    /\ e_pc = "start"
    /\ stdout' = Append(stdout, <<"Creating .env file at", EnvPath(e_args.local_dir)>>)
    /\ IF e_args.local_dir \in exists
       THEN /\ envfile' = OpenForWriting(envfile, e_args.local_dir)
            /\ trace' = Append(trace, <<"OPEN_W", EnvPath(e_args.local_dir)>>)
            /\ e_i' = 1
            /\ e_pc' = "loop"
       ELSE /\ e_pc' = "raised"
            /\ UNCHANGED <<envfile, trace, e_i>>
    /\ UNCHANGED <<exists, e_args, e_before, e_calls, syncVars, permVars, deployVars, mainVars>>

\* lines 173-174: one iteration of the loop
EnvWrite ==
    /\ e_pc = "loop"
    /\ e_i <= Len(e_args.env_config)
    /\ envfile' = [envfile EXCEPT ![e_args.local_dir] = @ \o EnvLine(e_args.env_config[e_i])]
    /\ e_i' = e_i + 1
    /\ UNCHANGED <<exists, ioVars, e_pc, e_args, e_before, e_calls,
                   syncVars, permVars, deployVars, mainVars>>

\* the loop is exhausted, the file is closed and the function returns
EnvReturn ==
    /\ e_pc = "loop"
    /\ e_i > Len(e_args.env_config)
    /\ e_pc' = "returned"
    /\ UNCHANGED <<fsVars, ioVars, e_args, e_i, e_before, e_calls,
                   syncVars, permVars, deployVars, mainVars>>

\* ------------------------------------------------------------------------
\* deploy_repo
\* ------------------------------------------------------------------------
ServerUrls == {"http://localhost:9000", "http://deploy.example"}
StatusCodes == {200, 201, 500}
Bodies == {[is_json |-> TRUE, data |-> "{status: ok}"],
           [is_json |-> TRUE, data |-> "{status: error}"],
           [is_json |-> FALSE, data |-> "<html>"]}

\* what requests.post can do: raise a network-level error or give a response
PostOutcomes ==
    {[kind |-> "network_failure"]}
        \cup [kind : {"response"}, status_code : StatusCodes, body : Bodies]

\* lines 59-66
Payload(a) ==
    [username |-> a.username, repo_url |-> a.repo_url, branch |-> a.branch,
     commit_hash |-> a.commit_hash, local_dir |-> a.local_dir,
     exclude_ext |-> a.exclude_ext]

\* f"{server_url}/deploy"
DeployUrl(server_url) == server_url \o "/deploy"

\* no response bound yet
NoResponse == [kind |-> "none"]

NoException == [type |-> None, request_exception |-> FALSE]

DeployIdle ==
    /\ d_pc = "idle"
    /\ d_args = None
    /\ d_resp = NoResponse
    /\ d_data = None
    /\ d_exc = NoException
    /\ posts = << >>
    /\ d_calls = 0

\* what a call of deploy_repo starts from
DeployEnter(a) ==
    /\ d_args' = a
    /\ d_pc' = "start"
    /\ d_resp' = NoResponse
    /\ d_data' = None
    /\ d_exc' = NoException
    /\ posts' = << >>
    /\ d_calls' = d_calls + 1
    /\ UNCHANGED json_error_is_request_exception

DirectDeployArgs ==
    [username : {None, "alice"}, server_url : ServerUrls, repo_url : RepoUrls,
     branch : {"main"}, commit_hash : {None, "abc123"}, local_dir : {"./test"},
     exclude_ext : {".ipynb"}]

\* a caller invokes deploy_repo directly
DeployCall ==
    /\ d_pc \in {"idle", "returned", "raised"}
    /\ d_calls < MaxCalls
    /\ \E a \in DirectDeployArgs : DeployEnter(a)
    /\ stdout' = << >>
    /\ trace' = << >>
    /\ UNCHANGED <<fsVars, syncVars, permVars, envVars, mainVars>>

DeployFrame == <<fsVars, syncVars, permVars, envVars, mainVars,
                 d_args, d_calls, json_error_is_request_exception>>

\* lines 59-69: build the payload and post it
DeployPost ==
    /\ d_pc = "start"
    /\ posts' = Append(posts, [url |-> DeployUrl(d_args.server_url), json |-> Payload(d_args)])
    /\ trace' = Append(trace, <<"POST", DeployUrl(d_args.server_url)>>)
    /\ \E o \in PostOutcomes :
         IF o.kind = "network_failure"
         THEN /\ d_exc' = [type |-> "ConnectionError", request_exception |-> TRUE]
              /\ d_pc' = "handler"
              /\ UNCHANGED d_resp
         ELSE /\ d_resp' = o
              /\ d_pc' = "json"
              /\ UNCHANGED d_exc
    /\ UNCHANGED <<stdout, d_data, DeployFrame>>

\* line 70: response.json() parses the body or raises the library's
\* JSONDecodeError
DeployJson ==
    /\ d_pc = "json"
    /\ IF d_resp.body.is_json
       THEN /\ d_data' = d_resp.body.data
            /\ d_pc' = "status"
            /\ UNCHANGED d_exc
       ELSE /\ d_exc' = [type |-> "JSONDecodeError",
                         request_exception |-> json_error_is_request_exception]
            /\ d_pc' = "handler"
            /\ UNCHANGED d_data
    /\ UNCHANGED <<ioVars, d_resp, posts, DeployFrame>>

\* variant: any 2xx status counts as success
DeployPrintStatus_Any2xx ==
    /\ d_pc = "status"
    /\ stdout' = Append(stdout, IF d_resp.status_code \in 200..299
                                THEN <<"Deployment successful!">>
                                ELSE <<"Deployment failed!">>)
    /\ d_pc' = "body"
    /\ UNCHANGED <<trace, d_resp, d_data, d_exc, posts, DeployFrame>>

\* lines 72-75
DeployPrintStatus ==
    /\ d_pc = "status"
    /\ stdout' = Append(stdout, IF d_resp.status_code = 200
                                THEN <<"Deployment successful!">>
                                ELSE <<"Deployment failed!">>)
    /\ d_pc' = "body"
    /\ UNCHANGED <<trace, d_resp, d_data, d_exc, posts, DeployFrame>>

\* line 77, after which the function returns
DeployPrintBody ==
    /\ d_pc = "body"
    /\ stdout' = Append(stdout, <<"json.dumps", d_data>>)
    /\ d_pc' = "returned"
    /\ UNCHANGED <<trace, d_resp, d_data, d_exc, posts, DeployFrame>>

\* variant: a bare `except Exception`, which catches everything
DeployExcept_CatchAll ==
    /\ d_pc = "handler"
    /\ stdout' = Append(stdout, <<"Error:", d_exc.type>>)
    /\ d_pc' = "returned"
    /\ UNCHANGED <<trace, d_resp, d_data, d_exc, posts, DeployFrame>>

\* lines 78-79: the except clause matches a RequestException
DeployExcept ==
    /\ d_pc = "handler"
    /\ d_exc.request_exception
    /\ stdout' = Append(stdout, <<"Error:", d_exc.type>>)
    /\ d_pc' = "returned"
    /\ UNCHANGED <<trace, d_resp, d_data, d_exc, posts, DeployFrame>>

\* variant: a handler that prints and re-raises
DeployPropagate_Always ==
    /\ d_pc = "handler"
    /\ d_pc' = "raised"
    /\ UNCHANGED <<ioVars, d_resp, d_data, d_exc, posts, DeployFrame>>

\* line 78: the except clause does not match, the exception leaves deploy_repo
DeployPropagate ==
    /\ d_pc = "handler"
    /\ ~d_exc.request_exception
    /\ d_pc' = "raised"
    /\ UNCHANGED <<ioVars, d_resp, d_data, d_exc, posts, DeployFrame>>

\* ------------------------------------------------------------------------
\* entry flow (the __main__ block), load_config and get_username
\* ------------------------------------------------------------------------
ConfigPath == "deployment.yaml"

\* values the optional scalar keys take when deployment.yaml gives them
ConfigValue ==
    [repo_url |-> "https://h/a.git", branch |-> "dev", commit_hash |-> "abc123",
     local_dir |-> "/srv/app", exclude_ext |-> ".py"]

\* the mappings deployment.yaml can hold: any subset of the scalar keys, with
\* or without an env mapping
Configs ==
    {[k \in ks |-> ConfigValue[k]] : ks \in SUBSET DOMAIN ConfigValue}
        \cup {[k \in ks \cup {"env"} |-> IF k = "env" THEN e ELSE ConfigValue[k]] :
                ks \in SUBSET DOMAIN ConfigValue, e \in EnvConfigs}

\* dict.get(key, default)
DictGet(d, key, default) == IF key \in DOMAIN d THEN d[key] ELSE default

\* get_username: os.getenv("USERNAME") or os.getenv("USER")
get_username(env) == IF Truthy(env.USERNAME) THEN env.USERNAME ELSE env.USER

MainIdle ==
    /\ m_pc = "idle"
    /\ environ = None
    /\ cfg_content = None
    /\ username = None
    /\ config = None
    /\ local_dir = None
    /\ m_exc = None

MainFrame == <<environ, cfg_content, json_error_is_request_exception, syncVars, permVars>>

\* lines 178-179
MainGetUsername ==
    /\ m_pc = "start"
    /\ username' = get_username(environ)
    /\ m_pc' = "load"
    /\ UNCHANGED <<fsVars, ioVars, config, local_dir, m_exc, envVars,
                   d_pc, d_args, d_resp, d_data, d_exc, posts, d_calls, MainFrame>>

\* lines 180 and 40-44: load_config raises when the file is missing
MainLoadConfig ==
    /\ m_pc = "load"
    /\ IF ConfigPath \notin exists
       THEN /\ m_exc' = "FileNotFoundError"
            /\ m_pc' = "raised"
            /\ UNCHANGED config
       ELSE /\ config' = cfg_content
            /\ m_pc' = "local_dir"
            /\ UNCHANGED m_exc
    /\ UNCHANGED <<fsVars, ioVars, username, local_dir, envVars,
                   d_pc, d_args, d_resp, d_data, d_exc, posts, d_calls, MainFrame>>

\* line 181
MainLocalDir ==
    /\ m_pc = "local_dir"
    /\ local_dir' = DictGet(config, "local_dir", "./test")
    /\ m_pc' = "call_deploy"
    /\ UNCHANGED <<fsVars, ioVars, username, config, m_exc, envVars,
                   d_pc, d_args, d_resp, d_data, d_exc, posts, d_calls, MainFrame>>

\* variant: config.get("repo_url"), which gives None for an absent key
MainCallDeploy_Get ==
    /\ m_pc = "call_deploy"
    /\ DeployEnter([username |-> username,
                    server_url |-> "http://localhost:9000",
                    repo_url |-> DictGet(config, "repo_url", None),
                    branch |-> DictGet(config, "branch", "main"),
                    commit_hash |-> DictGet(config, "commit_hash", None),
                    local_dir |-> local_dir,
                    exclude_ext |-> DictGet(config, "exclude_ext", ".ipynb")])
    /\ m_pc' = "in_deploy"
    /\ UNCHANGED m_exc
    /\ UNCHANGED <<fsVars, ioVars, username, config, local_dir, envVars, MainFrame>>

\* lines 183-191: the arguments are evaluated, config["repo_url"] raising
\* KeyError when the key is absent, and deploy_repo is entered
MainCallDeploy ==
    /\ m_pc = "call_deploy"
    /\ IF "repo_url" \notin DOMAIN config
       THEN /\ m_exc' = "KeyError"
            /\ m_pc' = "raised"
            /\ UNCHANGED <<d_pc, d_args, d_resp, d_data, d_exc, posts, d_calls>>
       ELSE /\ DeployEnter([username |-> username,
                            server_url |-> "http://localhost:9000",
                            repo_url |-> config["repo_url"],
                            branch |-> DictGet(config, "branch", "main"),
                            commit_hash |-> DictGet(config, "commit_hash", None),
                            local_dir |-> local_dir,
                            exclude_ext |-> DictGet(config, "exclude_ext", ".ipynb")])
            /\ m_pc' = "in_deploy"
            /\ UNCHANGED m_exc
    /\ UNCHANGED <<fsVars, ioVars, username, config, local_dir, envVars, MainFrame>>

\* deploy_repo raised: the run ends with that exception
MainDeployRaised ==
    /\ m_pc = "in_deploy"
    /\ d_pc = "raised"
    /\ m_exc' = d_exc.type
    /\ m_pc' = "raised"
    /\ UNCHANGED <<fsVars, ioVars, username, config, local_dir, envVars,
                   d_pc, d_args, d_resp, d_data, d_exc, posts, d_calls, MainFrame>>

\* lines 193-194, the configuration has an env section: create_env_file is entered
MainCallCreateEnv ==
    /\ m_pc = "in_deploy"
    /\ d_pc = "returned"
    /\ "env" \in DOMAIN config
    /\ EnvEnter(local_dir, config["env"])
    /\ m_pc' = "in_env"
    /\ UNCHANGED <<fsVars, ioVars, username, config, local_dir, m_exc,
                   d_pc, d_args, d_resp, d_data, d_exc, posts, d_calls, MainFrame>>

\* line 193, no env section: the run is over
MainSkipEnv ==
    /\ m_pc = "in_deploy"
    /\ d_pc = "returned"
    /\ "env" \notin DOMAIN config
    /\ m_pc' = "done"
    /\ UNCHANGED <<fsVars, ioVars, username, config, local_dir, m_exc, envVars,
                   d_pc, d_args, d_resp, d_data, d_exc, posts, d_calls, MainFrame>>

\* create_env_file returned or raised: the run is over
MainEnvFinished ==
    /\ m_pc = "in_env"
    /\ e_pc \in {"returned", "raised"}
    /\ IF e_pc = "raised"
       THEN m_exc' = "FileNotFoundError" /\ m_pc' = "raised"
       ELSE m_pc' = "done" /\ UNCHANGED m_exc
    /\ UNCHANGED <<fsVars, ioVars, username, config, local_dir, envVars,
                   d_pc, d_args, d_resp, d_data, d_exc, posts, d_calls, MainFrame>>

\* ------------------------------------------------------------------------
\* Specifications
\* ------------------------------------------------------------------------
NoFiles == [d \in {} |-> << >>]

\* the entry flow, run once as a script
Init ==
    /\ exists \in SUBSET (LocalDirs \cup {ConfigPath})
    /\ envfile \in {NoFiles} \cup {[d \in {dir} |-> EnvLine(<<<<"O">>, <<"o">> >>)] : dir \in exists \cap LocalDirs}
    /\ stdout = << >>
    /\ trace = << >>
    /\ SyncIdle
    /\ p_fs = << >>
    /\ PermIdle
    /\ EnvIdle
    /\ DeployIdle
    /\ json_error_is_request_exception \in BOOLEAN
    /\ m_pc = "start"
    /\ environ \in [USERNAME : {None, "alice"}, USER : {None, "bob"}]
    /\ cfg_content \in Configs
    /\ username = None
    /\ config = None
    /\ local_dir = None
    /\ m_exc = None

Next ==
    \/ MainGetUsername
    \/ MainLoadConfig
    \/ MainLocalDir
    \/ MainCallDeploy
    \/ DeployPost
    \/ DeployJson
    \/ DeployPrintStatus
    \/ DeployPrintBody
    \/ DeployExcept
    \/ DeployPropagate
    \/ MainDeployRaised
    \/ MainCallCreateEnv
    \/ MainSkipEnv
    \/ EnvOpen
    \/ EnvWrite
    \/ EnvReturn
    \/ MainEnvFinished

Spec == Init /\ [][Next]_vars

\* clone_or_update_repo called by a client, possibly several times
InitSync ==
    /\ exists \in SUBSET LocalDirs
    /\ envfile = NoFiles
    /\ stdout = << >>
    /\ trace = << >>
    /\ SyncIdle
    /\ p_fs = << >>
    /\ PermIdle
    /\ EnvIdle
    /\ DeployIdle
    /\ json_error_is_request_exception = TRUE
    /\ MainIdle

SpecSync == InitSync /\ [][NextSync]_vars

\* the permission setters called by a client on a directory tree
InitPerm ==
    /\ exists = {}
    /\ envfile = NoFiles
    /\ stdout = << >>
    /\ trace = << >>
    /\ SyncIdle
    /\ p_fs \in Trees
    /\ PermIdle
    /\ EnvIdle
    /\ DeployIdle
    /\ json_error_is_request_exception = TRUE
    /\ MainIdle

NextPerm ==
    \/ PermCall
    \/ PermNextDir
    \/ PermReadonlyFile
    \/ PermFullFile
    \/ PermDone

SpecPerm == InitPerm /\ [][NextPerm]_vars

\* create_env_file called by a client, possibly several times
InitEnv ==
    /\ exists \in SUBSET LocalDirs
    /\ envfile = NoFiles
    /\ stdout = << >>
    /\ trace = << >>
    /\ SyncIdle
    /\ p_fs = << >>
    /\ PermIdle
    /\ EnvIdle
    /\ DeployIdle
    /\ json_error_is_request_exception = TRUE
    /\ MainIdle

NextEnv ==
    \/ EnvCall
    \/ EnvOpen
    \/ EnvWrite
    \/ EnvReturn

SpecEnv == InitEnv /\ [][NextEnv]_vars

\* deploy_repo called by a client, possibly several times
InitDeploy ==
    /\ exists = {}
    /\ envfile = NoFiles
    /\ stdout = << >>
    /\ trace = << >>
    /\ SyncIdle
    /\ p_fs = << >>
    /\ PermIdle
    /\ EnvIdle
    /\ DeployIdle
    /\ json_error_is_request_exception \in BOOLEAN
    /\ MainIdle

NextDeploy ==
    \/ DeployCall
    \/ DeployPost
    \/ DeployJson
    \/ DeployPrintStatus
    \/ DeployPrintBody
    \/ DeployExcept
    \/ DeployPropagate

SpecDeploy == InitDeploy /\ [][NextDeploy]_vars

\* ------------------------------------------------------------------------
\* Properties of clone_or_update_repo (checked under SpecSync)
\* ------------------------------------------------------------------------
\* the running call has issued its first command
SyncUnderWay == s_pc \notin {"idle", "start"}

IsPrefix(s, t) == Len(s) <= Len(t) /\ s = SubSeq(t, 1, Len(s))

IsFetch(c) == Len(c) = 4 /\ c[4] = "fetch"
IsClone(c) == Len(c) = 6 /\ c[2] = "clone"
IsPull(c) == Len(c) = 6 /\ c[4] = "pull"

\* C1 as stated: when the local directory did not exist at the call, the
\* clone with the supplied branch and URL is the only command of the call.
C1_CloneIsOnlyCommand ==
    (SyncUnderWay /\ ~s_existed) =>
        cmds = << <<"git", "clone", "-b", s_args.branch, s_args.repo_url, s_args.local_dir>> >>

\* C1 amended: when the local directory did not exist at the call, the first
\* command is the clone with exactly the supplied branch and URL, no fetch
\* and no second clone is ever issued, and the clone is the only command of
\* the finished call exactly when it failed; a pull is issued only as third
\* command, without a commit hash, after a successful clone and checkout.
C1_CloneFirstNoFetch ==
    (SyncUnderWay /\ ~s_existed) =>
        /\ Len(cmds) >= 1
        /\ cmds[1] = <<"git", "clone", "-b", s_args.branch, s_args.repo_url, s_args.local_dir>>
        /\ \A i \in 1..Len(cmds) : ~IsFetch(cmds[i]) /\ (i > 1 => ~IsClone(cmds[i]))
        /\ \A i \in 1..Len(cmds) :
             IsPull(cmds[i]) => /\ i = 3
                                /\ s_args.commit_hash \in {None, ""}
                                /\ results[1].success /\ results[2].success
        /\ s_pc = "returned" => (Len(cmds) = 1 <=> ~results[1].success)

\* a call on a missing directory that cloned, checked out and pulled
C1_Witness ==
    /\ s_pc = "returned"
    /\ ~s_existed
    /\ Len(cmds) = 3
    /\ IsClone(cmds[1])
    /\ IsPull(cmds[3])

\* C2: no command is issued after a command that failed, and the returned
\* result is the result of the last command issued (so a failed clone or
\* fetch is returned with nothing after it, and a failed checkout of the
\* branch is returned with no pull after it).
C2_StopAtFirstFailure ==
    /\ Len(results) <= Len(cmds)
    /\ Len(cmds) <= Len(results) + 1
    /\ \A i \in 1..Len(results) : ~results[i].success => Len(cmds) = i
    /\ s_pc = "returned" =>
         /\ Len(cmds) >= 1
         /\ Len(results) = Len(cmds)
         /\ returned = results[Len(cmds)]
         /\ ~results[1].success => (cmds = <<cmds[1]>> /\ returned = results[1])
         /\ (Len(cmds) >= 2 /\ ~results[2].success) =>
               (Len(cmds) = 2 /\ returned = results[2])

\* a finished call whose checkout of the branch failed
C2_Witness ==
    /\ s_pc = "returned"
    /\ Len(cmds) = 2
    /\ cmds[2] = <<"git", "-C", s_args.local_dir, "checkout", s_args.branch>>
    /\ results[1].success
    /\ ~results[2].success
    /\ returned = results[2]

\* fetch, checkout of the branch, pull from origin of the branch
UpdateSequence ==
    << <<"git", "-C", s_args.local_dir, "fetch">>,
       <<"git", "-C", s_args.local_dir, "checkout", s_args.branch>>,
       <<"git", "-C", s_args.local_dir, "pull", "origin", s_args.branch>> >>

\* C3: with an existing directory and no commit hash the commands are fetch,
\* checkout of the branch, pull from origin of the branch, in this order,
\* each issued only if the one before it succeeded (and issued when it did);
\* when all three succeed exactly these three are issued and the pull's
\* result is returned.
C3_FetchCheckoutPull ==
    (SyncUnderWay /\ s_existed /\ s_args.commit_hash \in {None, ""}) =>
        /\ Len(cmds) >= 1
        /\ IsPrefix(cmds, UpdateSequence)
        /\ \A i \in 2..Len(cmds) : results[i - 1].success
        /\ s_pc = "returned" =>
             /\ \A i \in 1..Len(results) : results[i].success => (i = 3 \/ Len(cmds) > i)
             /\ (\A i \in 1..Len(results) : results[i].success) =>
                   (cmds = UpdateSequence /\ returned = results[3])

\* an update without commit hash in which all three commands succeeded
C3_Witness ==
    /\ s_pc = "returned"
    /\ s_existed
    /\ s_args.commit_hash = ""
    /\ Len(cmds) = 3
    /\ returned.success

\* C4: with an existing directory and a commit hash the commands are fetch
\* and then, if the fetch succeeded, a checkout of exactly that hash; no
\* pull and no checkout of the branch is issued, and the checkout's result
\* is what is returned.
C4_FetchCheckoutCommit ==
    (SyncUnderWay /\ s_existed /\ s_args.commit_hash \notin {None, ""}) =>
        /\ Len(cmds) >= 1
        /\ IsPrefix(cmds, << <<"git", "-C", s_args.local_dir, "fetch">>,
                             <<"git", "-C", s_args.local_dir, "checkout", s_args.commit_hash>> >>)
        /\ Len(cmds) = 2 => results[1].success
        /\ \A i \in 1..Len(cmds) :
             /\ ~IsPull(cmds[i])
             /\ cmds[i] # <<"git", "-C", s_args.local_dir, "checkout", s_args.branch>>
        /\ (s_pc = "returned" /\ results[1].success) =>
             (Len(cmds) = 2 /\ returned = results[2])

\* an update pinned to a commit whose checkout failed
C4_Witness ==
    /\ s_pc = "returned"
    /\ s_existed
    /\ s_args.commit_hash = "abc123"
    /\ Len(cmds) = 2
    /\ ~returned.success

\* ------------------------------------------------------------------------
\* Properties of set_permission_readonly (checked under SpecPerm)
\* ------------------------------------------------------------------------
\* s = x + suffix for some x
HasSuffix(s, suffix) == \E k \in 0..Len(s) : SubSeq(s, 1, k) \o suffix = s

\* path lies below directory dir
Below(path, dir) == Len(path) > Len(dir) /\ SubSeq(path, 1, Len(dir)) = dir

\* number of log entries that name path
LogEntries(path) ==
    Cardinality({i \in 1..Len(p_logs) : p_logs[i] = <<"Set", path, "to read-only.">>})

\* files of the tree of the running call that the exclusion does not cover
Targets ==
    {p \in DOMAIN p_fs0 : /\ p_fs0[p].kind = "file"
                          /\ Below(p, p_args.local_dir)
                          /\ ~HasSuffix(p[Len(p)], p_args.exclude_ext)}

\* C8: set_permission_readonly leaves every directory, every file whose name
\* ends with the excluded extension and every file outside the tree as it
\* was and logs nothing for them; it logs exactly one entry per file it
\* chmods, which then has mode 0o444; and when it returns every file of the
\* tree whose name does not end with the excluded extension has mode 0o444
\* and exactly one log entry.
C8_ReadonlySweep ==
    (p_pc \in {"walk", "done", "raised"} /\ p_args.fn = "set_permission_readonly") =>
        /\ DOMAIN p_fs = DOMAIN p_fs0
        /\ \A p \in DOMAIN p_fs :
             /\ p \notin Targets => (p_fs[p] = p_fs0[p] /\ LogEntries(p) = 0)
             /\ p \in Targets =>
                  /\ p_fs[p].kind = "file"
                  /\ LogEntries(p) <= 1
                  /\ LogEntries(p) = 1 => p_fs[p].mode = 292
                  /\ LogEntries(p) = 0 => p_fs[p] = p_fs0[p]
        /\ Len(p_logs) <= Cardinality(Targets)
        /\ p_pc = "done" =>
             /\ \A p \in Targets : p_fs[p].mode = 292 /\ LogEntries(p) = 1
             /\ Len(p_logs) = Cardinality(Targets)

\* a finished sweep of r/ excluding ".n" that changed a file in r/ and one in
\* r/d.n/ and passed over an excluded file that is not read-only
C8_Witness ==
    /\ p_pc = "done"
    /\ p_args.fn = "set_permission_readonly"
    /\ p_args.local_dir = <<RootName>>
    /\ p_args.exclude_ext = <<".", "n">>
    /\ \E p \in DOMAIN p_fs : /\ Len(p) = 2
                              /\ p[1] = RootName
                              /\ p_fs0[p].kind = "file"
                              /\ p_fs0[p].mode = 420
                              /\ p_fs[p].mode = 292
    /\ \E p \in DOMAIN p_fs : Len(p) = 3 /\ p_fs0[p].mode = 420 /\ p_fs[p].mode = 292
    /\ \E p \in DOMAIN p_fs : /\ Below(p, <<RootName>>)
                              /\ p_fs[p].kind = "file"
                              /\ HasSuffix(p[Len(p)], <<".", "n">>)
                              /\ p_fs[p].mode = 420

\* ------------------------------------------------------------------------
\* Properties of create_env_file (checked under SpecEnv)
\* ------------------------------------------------------------------------
RECURSIVE ExpectedEnvFile(_)
\* the lines KEY = 'VALUE', one per entry, each ended by a newline
ExpectedEnvFile(items) ==
    IF items = << >> THEN << >>
    ELSE Head(items)[1] \o <<" ", "=", " ", "'">> \o Head(items)[2] \o <<"'", "\n">>
           \o ExpectedEnvFile(Tail(items))

\* C10: when create_env_file(D, M) has returned, D/.env holds exactly the
\* lines KEY = 'VALUE' of M's entries in M's order, each ended by a newline,
\* whatever the file held before (so the file reflects only the last call,
\* and a repeated call with the same mapping gives the same file); the .env
\* files of other directories are as they were.
C10_EnvFileIsMapping ==
    e_pc = "returned" =>
        /\ e_args.local_dir \in DOMAIN envfile
        /\ envfile[e_args.local_dir] = ExpectedEnvFile(e_args.env_config)
        /\ \A d \in LocalDirs \ {e_args.local_dir} :
             /\ d \in DOMAIN envfile <=> d \in DOMAIN e_before
             /\ d \in DOMAIN envfile => envfile[d] = e_before[d]

\* a second call that replaced a non-empty file by a different two-line file
C10_Witness ==
    /\ e_pc = "returned"
    /\ e_calls = 2
    /\ Len(e_args.env_config) = 2
    /\ e_args.local_dir \in DOMAIN e_before
    /\ e_before[e_args.local_dir] # << >>
    /\ e_before[e_args.local_dir] # envfile[e_args.local_dir]

\* ------------------------------------------------------------------------
\* Properties of deploy_repo (checked under SpecDeploy)
\* ------------------------------------------------------------------------
DeployFinished == d_pc \in {"returned", "raised"}

GotResponse == d_resp.kind = "response"
GotJson == GotResponse /\ d_resp.body.is_json
GotNonJson == GotResponse /\ ~d_resp.body.is_json
NetworkFailure == d_exc.type = "ConnectionError"

\* C6: deploy_repo sends exactly one POST, to <server_url>/deploy, with the
\* payload of its arguments; on a network-level failure it prints an error
\* and returns; on a JSON response it prints the success indication if and
\* only if the status code is 200, the failed indication otherwise, and then
\* the body.
C6_ReporterOutcome ==
    /\ Len(posts) <= 1
    /\ d_pc \notin {"idle", "start"} =>
         posts = << [url |-> d_args.server_url \o "/deploy",
                     json |-> [username |-> d_args.username,
                               repo_url |-> d_args.repo_url,
                               branch |-> d_args.branch,
                               commit_hash |-> d_args.commit_hash,
                               local_dir |-> d_args.local_dir,
                               exclude_ext |-> d_args.exclude_ext]] >>
    /\ (DeployFinished /\ NetworkFailure) =>
         /\ d_pc = "returned"
         /\ stdout = << <<"Error:", "ConnectionError">> >>
    /\ (DeployFinished /\ GotJson) =>
         /\ d_pc = "returned"
         /\ Len(stdout) = 2
         /\ stdout[1] = <<"Deployment successful!">> <=> d_resp.status_code = 200
         /\ stdout[1] = <<"Deployment failed!">> <=> d_resp.status_code # 200
         /\ stdout[2] = <<"json.dumps", d_resp.body.data>>

\* a JSON response with status 201 was reported as failed
C6_Witness ==
    /\ d_pc = "returned"
    /\ GotJson
    /\ d_resp.status_code = 201
    /\ d_args.server_url = "http://deploy.example"
    /\ stdout[1] = <<"Deployment failed!">>

\* ------------------------------------------------------------------------
\* Properties of the entry flow (checked under Spec)
\* ------------------------------------------------------------------------
MainFinished == m_pc \in {"done", "raised"}

Posted == {i \in 1..Len(trace) : trace[i][1] = "POST"}
Opened == {i \in 1..Len(trace) : trace[i][1] = "OPEN_W"}

\* create_env_file wrote the file and returned
EnvFileWritten == Opened # {} /\ e_pc = "returned"

\* the configuration can be loaded and has repo_url
ConfigUsable == ConfigPath \in exists /\ "repo_url" \in DOMAIN cfg_content

\* the directory the configuration names, or the default
ConfiguredDir ==
    IF "local_dir" \in DOMAIN cfg_content THEN cfg_content["local_dir"] ELSE "./test"

\* the body could not be parsed and the library's error is no RequestException
ParseErrorEscapes == GotNonJson /\ ~json_error_is_request_exception

\* C5 as stated: a body that is not JSON always makes deploy_repo raise, and
\* the run ends without the environment file being written.
C5_NonJsonAlwaysPropagates ==
    GotNonJson =>
        /\ DeployFinished => d_pc = "raised"
        /\ MainFinished => (m_pc = "raised" /\ Opened = {})

\* C5 amended: a body that is not JSON makes response.json() raise, and
\* neither the success nor the failed indication nor the body is printed.
\* The error leaves deploy_repo exactly when the library's JSONDecodeError is
\* no RequestException (requests before 2.27): the run then ends with that
\* error and the environment file is not opened. Otherwise (requests 2.27 or
\* later) the handler catches and prints it like a network failure and
\* deploy_repo returns.
C5_NonJsonByLibrary ==
    GotNonJson =>
        /\ \A i \in 1..Len(stdout) :
             stdout[i][1] \notin {"Deployment successful!", "Deployment failed!", "json.dumps"}
        /\ DeployFinished => (d_pc = "raised" <=> ~json_error_is_request_exception)
        /\ d_pc = "raised" =>
             /\ d_exc.type = "JSONDecodeError"
             /\ Opened = {}
             /\ e_pc = "idle"
             /\ m_pc \in {"in_deploy", "raised"}
             /\ m_pc = "raised" => m_exc = "JSONDecodeError"
        /\ d_pc = "returned" => stdout[1] = <<"Error:", "JSONDecodeError">>
        /\ MainFinished => (Opened = {} <=>
                              \/ ~json_error_is_request_exception
                              \/ "env" \notin DOMAIN cfg_content
                              \/ ConfiguredDir \notin exists)

\* a run with an env section and an existing directory that a parse error ended
C5_Witness ==
    /\ m_pc = "raised"
    /\ GotNonJson
    /\ d_pc = "raised"
    /\ "env" \in DOMAIN config
    /\ local_dir \in exists

\* C7 as stated: with a loadable configuration that has repo_url, the
\* reporter is called once, before any write of the environment file, and
\* the file is written if and only if there is an env section.
C7_EnvWrittenIffSection ==
    (MainFinished /\ ConfigUsable) =>
        /\ d_calls = 1
        /\ Cardinality(Posted) = 1
        /\ \A i \in Opened : \E j \in Posted : j < i
        /\ EnvFileWritten <=> "env" \in DOMAIN cfg_content

\* C7 amended: with a loadable configuration that has repo_url, the reporter
\* is called once and posts once, before any write of the environment file;
\* the file is written if and only if there is an env section, the reporter
\* returned (it does after a network failure and after any JSON response,
\* whatever the status; it does not when a parse error escapes it) and the
\* local directory exists. The run completes exactly when the reporter
\* returned and the file, if asked for, could be written.
C7_EnvWrittenWhenPossible ==
    (MainFinished /\ ConfigUsable) =>
        /\ d_calls = 1
        /\ Cardinality(Posted) = 1
        /\ \A i \in Opened : \E j \in Posted : j < i
        /\ Cardinality(Opened) <= 1
        /\ (NetworkFailure \/ GotJson) => d_pc = "returned"
        /\ EnvFileWritten <=> /\ "env" \in DOMAIN cfg_content
                              /\ ~ParseErrorEscapes
                              /\ ConfiguredDir \in exists
        /\ EnvFileWritten =>
             envfile[ConfiguredDir] = ExpectedEnvFile(cfg_content["env"])
        /\ m_pc = "done" <=> /\ ~ParseErrorEscapes
                             /\ ("env" \in DOMAIN cfg_content => ConfiguredDir \in exists)

\* a run that met a network failure and still wrote the environment file
C7_Witness ==
    /\ m_pc = "done"
    /\ NetworkFailure
    /\ EnvFileWritten
    /\ Len(config["env"]) = 2

\* C9: a missing configuration file ends the run with the missing-file
\* error, a configuration without repo_url with a key-lookup error, and in
\* both cases nothing is posted and no environment file is opened.
C9_ConfigErrorsStopEarly ==
    /\ ConfigPath \notin exists =>
         /\ trace = << >> /\ posts = << >> /\ d_pc = "idle" /\ e_pc = "idle"
         /\ m_pc \in {"start", "load", "raised"}
         /\ m_pc = "raised" => m_exc = "FileNotFoundError"
    /\ (ConfigPath \in exists /\ "repo_url" \notin DOMAIN cfg_content) =>
         /\ trace = << >> /\ posts = << >> /\ d_pc = "idle" /\ e_pc = "idle"
         /\ m_pc \in {"start", "load", "local_dir", "call_deploy", "raised"}
         /\ m_pc = "raised" => m_exc = "KeyError"

\* a run whose configuration has an env section but no repo_url
C9_Witness ==
    /\ m_pc = "raised"
    /\ m_exc = "KeyError"
    /\ "env" \in DOMAIN config
    /\ "repo_url" \notin DOMAIN config

====
